---- MODULE Spec2Model ----
(***************************************************************************)
(* A model of put-object.go of s3verify: the PUT object request builder,   *)
(* the response verifier putObjectVerify, the process-wide object lists    *)
(* and the two test steps mainPutObjectPrepared / mainPutObjectUnPrepared. *)
(*                                                                         *)
(* Go values are represented uniformly:                                    *)
(*   - a byte is a small integer, a []byte a sequence of them;             *)
(*   - a string is the sequence of its pieces: the literal parts of a     *)
(*     format as they stand, converted values character by character;     *)
(*   - an error is its message (a string as above); the nil error is the   *)
(*     empty message (no error of this file has an empty message);         *)
(*   - an io.Reader is a record [isNil, data, pos, readErr, reads].        *)
(***************************************************************************)
EXTENDS Integers, Sequences, FiniteSets, TLC

(***************************************************************************)
(* Bounds of the model.                                                    *)
(***************************************************************************)
\* Number of iterations of the upload loop of mainPutObjectUnPrepared.  The
\* source hard-codes 101 (put-object.go:170); the loop body does not depend
\* on the value, so the model runs the same loop with a small bound.
LoopBound == 3
\* How many test steps the harness runs one after the other.
MaxSteps == 2
\* Longest non-empty response body the transport stub returns.
MaxBodyLen == 1
\* Longest payload handed to newPutObjectReq on its own.
MaxPayloadLen == 3

(***************************************************************************)
(* Program constants.                                                      *)
(***************************************************************************)
\* Size of the random body of every uploaded object (randString(60, ...)).
ObjectSize == 60
\* http.StatusOK, the status both steps expect.
StatusOK == 200

\* The characters randString draws from, as bytes.  No path of the program
\* looks at the content of an object body, so one character is kept.
Alphabet == {97}
\* Bytes a response body may carry.
BodyBytes == {120}

NoError == <<>>

Range(s) == {s[j] : j \in 1..Len(s)}

\* TRUE iff sequence t occurs in sequence s as a contiguous subsequence.
Contains(s, t) ==
    \E k \in 0..(Len(s) - Len(t)) : \A j \in 1..Len(t) : s[k + j] = t[j]

IsPrefix(s, t) ==
    Len(s) <= Len(t) /\ \A j \in 1..Len(s) : s[j] = t[j]

(***************************************************************************)
(* Conversions.                                                            *)
(***************************************************************************)
Digit(d) ==
    CASE d = 0 -> "0" [] d = 1 -> "1" [] d = 2 -> "2" [] d = 3 -> "3"
      [] d = 4 -> "4" [] d = 5 -> "5" [] d = 6 -> "6" [] d = 7 -> "7"
      [] d = 8 -> "8" [] d = 9 -> "9"

\* strconv.Itoa / fmt's %v of a non-negative int: the decimal digits.
RECURSIVE Itoa(_)
Itoa(n) ==
    IF n < 10 THEN <<Digit(n)>> ELSE Itoa(n \div 10) \o <<Digit(n % 10)>>

\* One byte as a character of a Go string.
Chr(b) ==
    CASE b = 97 -> "a" [] b = 98 -> "b" [] b = 120 -> "x" [] OTHER -> "?"

\* string(body): the bytes as characters.
BytesToString(bs) == [j \in 1..Len(bs) |-> Chr(bs[j])]

\* []byte(s): the characters as bytes.
Ord(c) ==
    CASE c = "a" -> 97 [] c = "b" -> 98 [] c = "x" -> 120 [] OTHER -> 63

StringToBytes(s) == [j \in 1..Len(s) |-> Ord(s[j])]

\* randString(n, source, ""): some string of n characters; the source of
\* randomness is not part of the model, only the length is.
RandStrings(n) == {[j \in 1..n |-> Chr(c)] : c \in Alphabet}

(***************************************************************************)
(* Byte streams (io.Reader / io.ReadCloser).                               *)
(*   isNil   - the interface value is nil                                  *)
(*   data    - the bytes the stream holds                                  *)
(*   pos     - how many of them have been consumed                         *)
(*   readErr - the stream fails with an error before it reaches EOF        *)
(*   reads   - how many times the stream was read to its end (ghost)       *)
(***************************************************************************)
NewReader(bs) ==
    [isNil |-> FALSE, data |-> bs, pos |-> 0, readErr |-> FALSE, reads |-> 0]

NilReader ==
    [isNil |-> TRUE, data |-> <<>>, pos |-> 0, readErr |-> FALSE, reads |-> 0]

FailingReader(bs) ==
    [isNil |-> FALSE, data |-> bs, pos |-> 0, readErr |-> TRUE, reads |-> 0]

\* The error a stream that breaks off returns from Read.
ErrUnexpectedEOF == <<"unexpected EOF">>

\* ioutil.ReadAll(r): calls r.Read until EOF or an error.  A nil r makes the
\* call of r.Read dereference nil: a run-time panic.  Otherwise the bytes
\* from the cursor on are returned and the cursor is left at the end.
ReadAll(r) ==
    IF r.isNil
    THEN [panic |-> TRUE, bytes |-> <<>>, err |-> NoError, reader |-> r]
    ELSE [panic  |-> FALSE,
          bytes  |-> SubSeq(r.data, r.pos + 1, Len(r.data)),
          err    |-> IF r.readErr THEN ErrUnexpectedEOF ELSE NoError,
          reader |-> [r EXCEPT !.pos = Len(r.data), !.reads = @ + 1]]

(***************************************************************************)
(* Responses.  Header is the set of header names the response carries.     *)
(***************************************************************************)
\* The headers the standard-header validator insists on.
StandardHeaders == {"Date", "Server"}

\* The validator's verdict on a header set it rejects.
ErrStandardHeader == <<"Unexpected Standard Headers">>

\* verifyStandardHeaders(header): defined elsewhere in the package; it
\* accepts or rejects the header set as a whole.
verifyStandardHeaders(header) ==
    IF StandardHeaders \subseteq header THEN NoError ELSE ErrStandardHeader

\* The status message with the received code left out.
ErrStatusNoActual(expectedStatusCode, respStatusCode) ==
    <<"Unexpected Response Status Code: wanted ">> \o Itoa(expectedStatusCode)

\* fmt.Errorf("Unexpected Response Status Code: wanted %v, got %v", ...)
ErrStatus(expectedStatusCode, respStatusCode) ==
    <<"Unexpected Response Status Code: wanted ">> \o Itoa(expectedStatusCode)
        \o <<", got ">> \o Itoa(respStatusCode)

\* fmt.Errorf("Unexpected Body Recieved: expected empty body but recieved: %v", string(body))
ErrBody(body) ==
    <<"Unexpected Body Recieved: expected empty body but recieved: ">>
        \o BytesToString(body)

\* verifyStatusPutObject
verifyStatusPutObject(respStatusCode, expectedStatusCode) ==
    IF respStatusCode # expectedStatusCode
    THEN ErrStatus(expectedStatusCode, respStatusCode)
    ELSE NoError

\* verifyBodyPutObject reading the stream a second time for its message.
verifyBodyPutObjectReadTwice(resBody) ==
    LET rd    == ReadAll(resBody)
        again == ReadAll(rd.reader)
    IN  IF rd.panic THEN [panic |-> TRUE, err |-> NoError, reader |-> rd.reader]
        ELSE IF rd.err # NoError
        THEN [panic |-> FALSE, err |-> rd.err, reader |-> rd.reader]
        ELSE IF rd.bytes # <<>>
        THEN [panic |-> FALSE, err |-> ErrBody(again.bytes), reader |-> again.reader]
        ELSE [panic |-> FALSE, err |-> NoError, reader |-> rd.reader]

\* verifyBodyPutObject without the comparison against the empty body.
verifyBodyPutObjectAnyBody(resBody) ==
    LET rd == ReadAll(resBody) IN
    IF rd.panic THEN [panic |-> TRUE, err |-> NoError, reader |-> rd.reader]
    ELSE [panic |-> FALSE, err |-> rd.err, reader |-> rd.reader]

\* verifyBodyPutObject: [panic, err, reader], reader being resBody after the call.
verifyBodyPutObject(resBody) ==
    LET rd == ReadAll(resBody) IN
    IF rd.panic THEN [panic |-> TRUE, err |-> NoError, reader |-> rd.reader]
    ELSE IF rd.err # NoError
    THEN [panic |-> FALSE, err |-> rd.err, reader |-> rd.reader]
    ELSE IF rd.bytes # <<>>
    THEN [panic |-> FALSE, err |-> ErrBody(rd.bytes), reader |-> rd.reader]
    ELSE [panic |-> FALSE, err |-> NoError, reader |-> rd.reader]

\* verifyHeaderPutObject
verifyHeaderPutObject(header) ==
    LET err == verifyStandardHeaders(header) IN
    IF err # NoError THEN err ELSE NoError

\* putObjectVerify with the status check moved in front of the header check.
putObjectVerifyStatusFirst(res, expectedStatusCode) ==
    LET h == verifyHeaderPutObject(res.Header)
        s == verifyStatusPutObject(res.StatusCode, expectedStatusCode)
        b == verifyBodyPutObject(res.Body)
    IN  IF s # NoError
        THEN [panic |-> FALSE, err |-> s, ran |-> <<"status">>, res |-> res]
        ELSE IF h # NoError
        THEN [panic |-> FALSE, err |-> h, ran |-> <<"status", "header">>, res |-> res]
        ELSE [panic |-> b.panic, err |-> b.err,
              ran |-> <<"status", "header", "body">>,
              res |-> [res EXCEPT !.Body = b.reader]]

\* putObjectVerify(res, expectedStatusCode).  The result is
\* [panic, err, ran, res]: err is the returned error, panic tells that the
\* call did not return but panicked, ran lists the checks that were called
\* (ghost), res is the response after the call (its body possibly consumed).
putObjectVerify(res, expectedStatusCode) ==
    LET h == verifyHeaderPutObject(res.Header)
        s == verifyStatusPutObject(res.StatusCode, expectedStatusCode)
        b == verifyBodyPutObject(res.Body)
    IN  IF h # NoError
        THEN [panic |-> FALSE, err |-> h, ran |-> <<"header">>, res |-> res]
        ELSE IF s # NoError
        THEN [panic |-> FALSE, err |-> s, ran |-> <<"header", "status">>, res |-> res]
        ELSE [panic |-> b.panic, err |-> b.err,
              ran |-> <<"header", "status", "body">>,
              res |-> [res EXCEPT !.Body = b.reader]]

(***************************************************************************)
(* The hasher and the request builder.                                     *)
(***************************************************************************)
\* One-byte stand-ins for the two digests: each takes the bytes in, one by
\* one and in order, from its own start value and with its own step.
MD5Step(h, b) == (h * 31 + b) % 256

SHA256Step(h, b) == (h * 17 + b + 1) % 256

DigestStep(alg, h, b) == IF alg = "md5" THEN MD5Step(h, b) ELSE SHA256Step(h, b)

\* The digest state after bytes lo..hi of bs, h being the state before them.
\* The range is halved so that the evaluation stays shallow for long inputs;
\* the state after the first half is computed before the second half starts.
RECURSIVE DigestRange(_, _, _, _, _)
DigestRange(alg, bs, lo, hi, h) ==
    IF lo > hi THEN h
    ELSE IF lo = hi THEN DigestStep(alg, h, bs[lo])
    ELSE LET mid == (lo + hi) \div 2 IN
         CHOOSE r \in {DigestRange(alg, bs, mid + 1, hi, left) :
                          left \in {DigestRange(alg, bs, lo, mid, h)}} : TRUE

SumMD5(bs) == DigestRange("md5", bs, 1, Len(bs), 7)

SumSHA256(bs) == DigestRange("sha256", bs, 1, Len(bs), 11)

HexDigits ==
    <<"0", "1", "2", "3", "4", "5", "6", "7", "8", "9", "a", "b", "c", "d", "e", "f">>

\* hex.EncodeToString of a digest: two hexadecimal digits per byte.
HexEncode(bs) ==
    [j \in 1..(2 * Len(bs)) |->
        LET b == bs[(j + 1) \div 2] IN
        IF j % 2 = 1 THEN HexDigits[(b \div 16) + 1] ELSE HexDigits[(b % 16) + 1]]

Base64Chars ==
    <<"A", "B", "C", "D", "E", "F", "G", "H", "I", "J", "K", "L", "M", "N", "O", "P",
      "Q", "R", "S", "T", "U", "V", "W", "X", "Y", "Z", "a", "b", "c", "d", "e", "f",
      "g", "h", "i", "j", "k", "l", "m", "n", "o", "p", "q", "r", "s", "t", "u", "v",
      "w", "x", "y", "z", "0", "1", "2", "3", "4", "5", "6", "7", "8", "9", "+", "/">>

\* base64.StdEncoding.EncodeToString of a one-byte digest: two characters
\* for the 8 bits, then the padding.
Base64Encode(bs) ==
    IF bs = <<>> THEN <<>>
    ELSE <<Base64Chars[(bs[1] \div 4) + 1], Base64Chars[((bs[1] % 4) * 16) + 1], "=", "=">>

\* computeHash(reader): defined elsewhere in the package.  It reads the
\* stream once to its end, returns both digests and the number of bytes
\* read, and rewinds the stream; hashErr is the read error it met, if any.
computeHash(reader, hashErr) ==
    LET rd == ReadAll(reader) IN
    IF hashErr # NoError
    THEN [md5Sum |-> <<>>, sha256Sum |-> <<>>, contentLength |-> 0,
          err |-> hashErr, reader |-> rd.reader]
    ELSE [md5Sum |-> <<SumMD5(rd.bytes)>>, sha256Sum |-> <<SumSHA256(rd.bytes)>>,
          contentLength |-> Len(rd.bytes), err |-> NoError,
          reader |-> [rd.reader EXCEPT !.pos = 0]]

\* http.Header{}: no header set.
EmptyHeader == [n \in {} |-> <<>>]

\* textproto.CanonicalMIMEHeaderKey for the names this file sets.
CanonicalKey(k) ==
    CASE k = "Content-MD5" -> "Content-Md5"
      [] OTHER -> k

\* http.Header.Set(key, value): replaces whatever the canonical key held.
HeaderSet(h, k, v) ==
    [n \in (DOMAIN h) \cup {CanonicalKey(k)} |->
        IF n = CanonicalKey(k) THEN v ELSE h[n]]

\* The client identification every request carries.
appUserAgent == <<"Minio (s3verify)">>

\* Request{}
EmptyRequest ==
    [bucketName |-> "", objectName |-> <<>>, customHeader |-> EmptyHeader,
     contentLength |-> 0, contentBody |-> NilReader]

\* http.Header.Get(key)
HeaderGet(h, k) == IF CanonicalKey(k) \in DOMAIN h THEN h[CanonicalKey(k)] ELSE <<>>

\* newPutObjectReq with the assignment of contentLength left out.
newPutObjectReqNoLength(bucketName, objectName, objectData, hashErr) ==
    LET reader == NewReader(objectData)
        hash   == computeHash(reader, hashErr)
        h1     == HeaderSet(EmptyHeader, "Content-MD5", Base64Encode(hash.md5Sum))
        h2     == HeaderSet(h1, "X-Amz-Content-Sha256", HexEncode(hash.sha256Sum))
        h3     == HeaderSet(h2, "User-Agent", appUserAgent)
    IN  IF hash.err # NoError
        THEN [req |-> EmptyRequest, err |-> hash.err]
        ELSE [req |-> [bucketName    |-> bucketName,
                       objectName    |-> objectName,
                       customHeader  |-> h3,
                       contentLength |-> 0,
                       contentBody   |-> hash.reader],
              err |-> NoError]

\* newPutObjectReq with the two digests put under each other's header.
newPutObjectReqSwapped(bucketName, objectName, objectData, hashErr) ==
    LET reader == NewReader(objectData)
        hash   == computeHash(reader, hashErr)
        h1     == HeaderSet(EmptyHeader, "Content-MD5", Base64Encode(hash.sha256Sum))
        h2     == HeaderSet(h1, "X-Amz-Content-Sha256", HexEncode(hash.md5Sum))
        h3     == HeaderSet(h2, "User-Agent", appUserAgent)
    IN  IF hash.err # NoError
        THEN [req |-> EmptyRequest, err |-> hash.err]
        ELSE [req |-> [bucketName    |-> bucketName,
                       objectName    |-> objectName,
                       customHeader  |-> h3,
                       contentLength |-> hash.contentLength,
                       contentBody   |-> hash.reader],
              err |-> NoError]

\* newPutObjectReq returning what it has built so far when the hasher fails.
newPutObjectReqPartial(bucketName, objectName, objectData, hashErr) ==
    LET reader == NewReader(objectData)
        hash   == computeHash(reader, hashErr)
        h1     == HeaderSet(EmptyHeader, "Content-MD5", Base64Encode(hash.md5Sum))
        h2     == HeaderSet(h1, "X-Amz-Content-Sha256", HexEncode(hash.sha256Sum))
        h3     == HeaderSet(h2, "User-Agent", appUserAgent)
    IN  IF hash.err # NoError
        THEN [req |-> [EmptyRequest EXCEPT !.bucketName = bucketName,
                                           !.objectName = objectName],
              err |-> hash.err]
        ELSE [req |-> [bucketName    |-> bucketName,
                       objectName    |-> objectName,
                       customHeader  |-> h3,
                       contentLength |-> hash.contentLength,
                       contentBody   |-> hash.reader],
              err |-> NoError]

\* newPutObjectReq(bucketName, objectName, objectData): [req, err].
newPutObjectReq(bucketName, objectName, objectData, hashErr) ==
    LET reader == NewReader(objectData)
        hash   == computeHash(reader, hashErr)
        h1     == HeaderSet(EmptyHeader, "Content-MD5", Base64Encode(hash.md5Sum))
        h2     == HeaderSet(h1, "X-Amz-Content-Sha256", HexEncode(hash.sha256Sum))
        h3     == HeaderSet(h2, "User-Agent", appUserAgent)
    IN  IF hash.err # NoError
        THEN [req |-> EmptyRequest, err |-> hash.err]
        ELSE [req |-> [bucketName    |-> bucketName,
                       objectName    |-> objectName,
                       customHeader  |-> h3,
                       contentLength |-> hash.contentLength,
                       contentBody   |-> hash.reader],
              err |-> NoError]

(***************************************************************************)
(* The state of the program.                                               *)
(***************************************************************************)
VARIABLES
    s3verifyBuckets,  \* the buckets created earlier in the run
    s3verifyObjects,  \* objects uploaded by the tests (put-object.go:33)
    preparedObjects,  \* objects uploaded by the preparing operation (:36)
    copyObjects,      \* objects that were copied (:39)
    mode,             \* which step runs: "prepared" or "unprepared"
    status,           \* "Pending", "Executing", "Passed", "Failed"; "Panicked"
                      \* when the step ended in a run-time panic
    pc,               \* where the running step stands
    curTest,          \* the number of the step within the run
    bucket,           \* local bucket (the name is all the step uses)
    i,                \* loop counter of mainPutObjectUnPrepared
    object,           \* local object
    req,              \* local req
    res,              \* local res: index into responses, 0 before execRequest
    responses,        \* every response the transport returned to this step
    deferred,         \* the step's deferred closeResponse calls, last first
    printed,          \* the printMessage calls of this step
    result,           \* what the step returns: "none" until it does
    panicking,        \* a panic is unwinding the step
    regAtStart,       \* ghost: s3verifyObjects when the step started
    synthesized,      \* ghost: the objects the step made, in order
    log,              \* ghost: the calls the step made, in order
    closeLog,         \* ghost: the responses closed, in order
    statusTrail,      \* ghost: the values status went through in this step
    vRes,             \* argument res of a stand-alone putObjectVerify call
    vExpected,        \* argument expectedStatusCode of that call
    vOut,             \* what the call gave
    vpc,              \* "idle", "ready" (arguments chosen), "returned"
    appendCount,      \* ghost: appends to s3verifyObjects since the run began
    bBucket,          \* argument bucketName of a stand-alone newPutObjectReq call
    bObject,          \* argument objectName of that call
    bPayload,         \* argument objectData of that call
    bHashErr,         \* the error the hasher meets in that call, if any
    bOut,             \* what the call gave
    bpc               \* "idle", "ready" (arguments chosen), "returned"

globals == <<s3verifyBuckets, s3verifyObjects, preparedObjects, copyObjects>>
locals == <<mode, status, pc, curTest, bucket, i, object, req, res, responses,
            deferred, printed, result, panicking>>
ghosts == <<regAtStart, synthesized, log, closeLog, statusTrail>>
verifyCall == <<vRes, vExpected, vOut, vpc>>
buildCall == <<bBucket, bObject, bPayload, bHashErr, bOut, bpc>>
calls == <<verifyCall, buildCall>>
vars == <<globals, locals, ghosts, calls, appendCount>>

(***************************************************************************)
(* What the collaborators may hand to the program.                         *)
(***************************************************************************)
Statuses == {StatusOK, 204, 403}

HeaderSets == SUBSET StandardHeaders

BodyContents == UNION {[1..n -> BodyBytes] : n \in 0..MaxBodyLen}

BodyStreams ==
    {NilReader, FailingReader(<<>>)} \cup {NewReader(bs) : bs \in BodyContents}

\* The responses execRequest may return.
Responses ==
    [Header : HeaderSets, StatusCode : Statuses, Body : BodyStreams, closed : {0}]

\* The error execRequest returns when the transport fails.
ErrTransport == <<"transport failure">>

\* The error computeHash returns when it cannot read the payload.
ErrHashRead == <<"hash read failure">>

NoObject == [Key |-> <<>>, Body |-> <<>>]

NoResponse ==
    [Header |-> {}, StatusCode |-> 0, Body |-> NilReader, closed |-> 0]

NoOutcome == [panic |-> FALSE, err |-> NoError, ran |-> <<>>, res |-> NoResponse]

\* An object some earlier operation left in a list.
EarlierObject(name) == [Key |-> <<name>>, Body |-> StringToBytes(<<"a", "b">>)]

(***************************************************************************)
(* Pieces of the two steps.                                                *)
(***************************************************************************)
\* The number of tests of the run, printed in every message.
globalTotalNumTest == MaxSteps

\* fmt.Sprintf("[%02d/%d] PutObject:", curTest, globalTotalNumTest)
Message(n) ==
    <<"[">> \o (IF n < 10 THEN <<"0">> ELSE <<>>) \o Itoa(n) \o <<"/">>
        \o Itoa(globalTotalNumTest) \o <<"] PutObject:">>

\* printMessage(message, err): one more line handed to the reporter.
printMessage(lines, message, err) ==
    Append(lines, [message |-> message, err |-> err])

\* The key of the single object of mainPutObjectPrepared.
PreparedKey == <<"s3verify/made/put/object">>

\* "s3verify/put/object/" + strconv.Itoa(i)
UnPreparedKey(n) == <<"s3verify/put/object/">> \o Itoa(n)

\* The loop condition off by one: one turn too many.
LoopContinuesOffByOne(n) == n <= LoopBound

\* for i := 0; i < 101; i++ : the loop condition.
LoopContinues(n) == n < LoopBound

\* The test of the verifier's error left out: every response passes.
VerifyPassedAlways(out) == TRUE

\* if err := putObjectVerify(...); err != nil : the step goes on only when
\* the verifier returned nil.
VerifyPassed(out) == out.err = NoError

\* The defer statement left out: nothing closes the response.
DeferCloseForgotten(stack, r) == stack

\* The deferred calls run in the order they were registered.
DeferCloseFifo(stack, r) == Append(stack, r)

\* defer closeResponse(res): one more deferred call, run before the others.
DeferClose(stack, r) == <<r>> \o stack

\* closeResponse(res): defined elsewhere in the package; releases the
\* response and its body.
closeResponse(r) == [r EXCEPT !.closed = @ + 1]

\* The object put in front of the list instead of at its end.
StoreObjectFront(objects, obj) == <<obj>> \o objects

\* The list overwritten with the new object instead of extended by it.
StoreObjectReplace(objects, obj) == <<obj>>

\* s3verifyObjects = append(s3verifyObjects, object)
StoreObject(objects, obj) == Append(objects, obj)

Logged(op, n) == Append(log, [op |-> op, n |-> n])

\* The failure is printed, but the step goes on with the next object
\* instead of returning.
FailWithContinue(err) ==
    /\ printed' = printMessage(printed, Message(curTest), err)
    /\ result' = "false"
    /\ pc' = "build"

\* return false after printMessage(message, err)
FailWith(err) ==
    /\ printed' = printMessage(printed, Message(curTest), err)
    /\ result' = "false"
    /\ pc' = "return"

\* printMessage(message, nil); return true
Pass ==
    /\ printed' = printMessage(printed, Message(curTest), NoError)
    /\ result' = "true"
    /\ pc' = "return"

\* Lines 117-119 / 163-165: the message is formatted and the first bucket is
\* taken.  Indexing an empty slice panics; nothing is deferred yet.
Start(m) ==
    /\ pc = "idle"
    /\ vpc = "idle"
    /\ mode' = m
    /\ regAtStart' = s3verifyObjects
    /\ IF s3verifyBuckets = <<>>
       THEN /\ status' = "Panicked"
            /\ panicking' = TRUE
            /\ pc' = "done"
            /\ bucket' = bucket
       ELSE /\ status' = "Executing"
            /\ panicking' = FALSE
            /\ pc' = "build"
            /\ bucket' = s3verifyBuckets[1]
    /\ statusTrail' = Append(statusTrail, status')
    /\ UNCHANGED <<globals, curTest, i, object, req, res, responses, deferred,
                   printed, result, synthesized, log, closeLog, calls, appendCount>>

\* The object is made and newPutObjectReq is called (124-135 / 173-183).
Build(key) ==
    \E body \in RandStrings(ObjectSize), hashErr \in {NoError, ErrHashRead} :
        LET obj   == [Key |-> key, Body |-> StringToBytes(body)]
            built == newPutObjectReq(bucket, obj.Key, obj.Body, hashErr)
        IN  /\ object' = obj
            /\ synthesized' = Append(synthesized, obj)
            /\ log' = Logged("build", i)
            /\ req' = built.req
            /\ IF built.err # NoError
               THEN FailWith(built.err)
               ELSE /\ pc' = "exec"
                    /\ UNCHANGED <<printed, result>>
            /\ UNCHANGED <<globals, mode, status, curTest, bucket, i, res, responses,
                           deferred, panicking, regAtStart, closeLog, statusTrail,
                           calls, appendCount>>

\* Exec storing the object as soon as the transport has answered, before
\* the response is verified.
ExecAppendsEarly ==
    /\ pc = "exec"
    /\ log' = Logged("exec", i)
    /\ \/ /\ FailWith(ErrTransport)
          /\ UNCHANGED <<res, responses, deferred, s3verifyObjects>>
       \/ \E r \in Responses :
            /\ responses' = Append(responses, r)
            /\ res' = Len(responses) + 1
            /\ deferred' = DeferClose(deferred, Len(responses) + 1)
            /\ s3verifyObjects' = StoreObject(s3verifyObjects, object)
            /\ pc' = "verify"
            /\ UNCHANGED <<printed, result>>
    /\ UNCHANGED <<s3verifyBuckets, preparedObjects, copyObjects, mode, status,
                   curTest, bucket, i, object, req, panicking, regAtStart,
                   synthesized, closeLog, statusTrail, calls, appendCount>>

\* config.execRequest("PUT", req) and the defer of closeResponse
\* (139-146 / 185-190).
Exec ==
    /\ pc = "exec"
    /\ log' = Logged("exec", i)
    /\ \/ /\ FailWith(ErrTransport)
          /\ UNCHANGED <<res, responses, deferred>>
       \/ \E r \in Responses :
            /\ responses' = Append(responses, r)
            /\ res' = Len(responses) + 1
            /\ deferred' = DeferClose(deferred, Len(responses) + 1)
            /\ pc' = "verify"
            /\ UNCHANGED <<printed, result>>
    /\ UNCHANGED <<globals, mode, status, curTest, bucket, i, object, req, panicking,
                   regAtStart, synthesized, closeLog, statusTrail, calls, appendCount>>

\* putObjectVerify on the response just received; out is its outcome.  A
\* panic inside the verifier unwinds the step: its deferred calls still run.
Verify(out, onSuccess) ==
    /\ pc = "verify"
    /\ log' = Logged("verify", i)
    /\ responses' = [responses EXCEPT ![res] = out.res]
    /\ IF out.panic
       THEN /\ panicking' = TRUE
            /\ pc' = "return"
            /\ UNCHANGED <<s3verifyObjects, printed, result, i, appendCount>>
       ELSE /\ panicking' = FALSE
            /\ IF VerifyPassed(out)
               THEN /\ s3verifyObjects' = StoreObject(s3verifyObjects, object)
                    /\ appendCount' = appendCount + 1
                    /\ onSuccess
               ELSE /\ FailWith(out.err)
                    /\ UNCHANGED <<s3verifyObjects, i, appendCount>>
    /\ UNCHANGED <<s3verifyBuckets, preparedObjects, copyObjects, mode, status,
                   curTest, bucket, object, req, res, deferred, regAtStart,
                   synthesized, closeLog, statusTrail, calls>>

(***************************************************************************)
(* mainPutObjectPrepared                                                   *)
(***************************************************************************)
PreparedStart == Start("prepared")

PreparedBuild ==
    /\ mode = "prepared"
    /\ pc = "build"
    /\ Build(PreparedKey)

PreparedExec ==
    /\ mode = "prepared"
    /\ Exec

\* PreparedVerify storing the object in preparedObjects, the list of the
\* preparing operation, instead of s3verifyObjects.
PreparedVerifyStoresPrepared ==
    /\ mode = "prepared"
    /\ pc = "verify"
    /\ LET out == putObjectVerify(responses[res], StatusOK) IN
       /\ log' = Logged("verify", i)
       /\ responses' = [responses EXCEPT ![res] = out.res]
       /\ IF out.panic
          THEN /\ panicking' = TRUE
               /\ pc' = "return"
               /\ UNCHANGED <<preparedObjects, printed, result>>
          ELSE /\ panicking' = FALSE
               /\ IF VerifyPassed(out)
                  THEN /\ preparedObjects' = StoreObject(preparedObjects, object)
                       /\ Pass
                  ELSE /\ FailWith(out.err)
                       /\ UNCHANGED preparedObjects
    /\ UNCHANGED <<s3verifyBuckets, s3verifyObjects, copyObjects, mode, status,
                   curTest, bucket, i, object, req, res, deferred, regAtStart,
                   synthesized, closeLog, statusTrail, calls, appendCount>>

\* Lines 148-158.
PreparedVerify ==
    /\ mode = "prepared"
    /\ pc = "verify"
    /\ Verify(putObjectVerify(responses[res], StatusOK), Pass /\ UNCHANGED i)

(***************************************************************************)
(* mainPutObjectUnPrepared                                                 *)
(***************************************************************************)
UnPreparedStart == Start("unprepared")

\* One more turn of the loop: lines 170-183.
UnPreparedBuild ==
    /\ mode = "unprepared"
    /\ pc = "build"
    /\ LoopContinues(i)
    /\ Build(UnPreparedKey(i))

UnPreparedExec ==
    /\ mode = "unprepared"
    /\ Exec

\* Lines 192-200: on success the object is stored and the loop goes on.
UnPreparedVerify ==
    /\ mode = "unprepared"
    /\ pc = "verify"
    /\ Verify(putObjectVerify(responses[res], StatusOK),
              /\ i' = i + 1
              /\ pc' = "build"
              /\ UNCHANGED <<printed, result>>)

\* The loop is over: lines 201-205.
UnPreparedDone ==
    /\ mode = "unprepared"
    /\ pc = "build"
    /\ ~LoopContinues(i)
    /\ Pass
    /\ UNCHANGED <<globals, mode, status, curTest, bucket, i, object, req, res,
                   responses, deferred, panicking, ghosts, calls, appendCount>>

(***************************************************************************)
(* Leaving a step, and the harness going on to the next one.               *)
(***************************************************************************)
\* The function is returning (or unwinding): the deferred call registered
\* last runs next.
RunDeferred ==
    /\ pc = "return"
    /\ deferred # <<>>
    /\ responses' = [responses EXCEPT ![Head(deferred)] = closeResponse(@)]
    /\ closeLog' = Append(closeLog, Head(deferred))
    /\ deferred' = Tail(deferred)
    /\ UNCHANGED <<globals, mode, status, pc, curTest, bucket, i, object, req, res,
                   printed, result, panicking, regAtStart, synthesized, log,
                   statusTrail, calls, appendCount>>

\* Every deferred call has run: the caller has the result, or the panic
\* ends the program.
Return ==
    /\ pc = "return"
    /\ deferred = <<>>
    /\ pc' = "done"
    /\ status' = IF panicking THEN "Panicked"
                 ELSE IF result = "true" THEN "Passed" ELSE "Failed"
    /\ statusTrail' = Append(statusTrail, status')
    /\ UNCHANGED <<globals, mode, curTest, bucket, i, object, req, res, responses,
                   deferred, printed, result, panicking, regAtStart, synthesized,
                   log, closeLog, calls, appendCount>>

\* The harness takes up the next step of the run; a panic has ended the run.
NextStep ==
    /\ pc = "done"
    /\ status \in {"Passed", "Failed"}
    /\ curTest < MaxSteps
    /\ curTest' = curTest + 1
    /\ mode' = "none"
    /\ status' = "Pending"
    /\ pc' = "idle"
    /\ bucket' = ""
    /\ i' = 0
    /\ object' = NoObject
    /\ req' = EmptyRequest
    /\ res' = 0
    /\ responses' = <<>>
    /\ deferred' = <<>>
    /\ printed' = <<>>
    /\ result' = "none"
    /\ panicking' = FALSE
    /\ regAtStart' = s3verifyObjects
    /\ synthesized' = <<>>
    /\ log' = <<>>
    /\ closeLog' = <<>>
    /\ statusTrail' = <<"Pending">>
    /\ UNCHANGED <<globals, calls, appendCount>>

(***************************************************************************)
(* The run of test steps.                                                  *)
(***************************************************************************)
\* The lists and the step's locals before the first step of a run.
InitRun ==
    /\ s3verifyBuckets \in {<<>>, <<"b1">>, <<"b1", "b2">>}
    /\ s3verifyObjects = <<>>
    /\ \E n \in 0..1 :
         /\ preparedObjects = [j \in 1..n |-> EarlierObject("prepared")]
         /\ copyObjects = [j \in 1..n |-> EarlierObject("copied")]
    /\ mode = "none"
    /\ status = "Pending"
    /\ pc = "idle"
    /\ curTest = 1
    /\ bucket = ""
    /\ i = 0
    /\ object = NoObject
    /\ req = EmptyRequest
    /\ res = 0
    /\ responses = <<>>
    /\ deferred = <<>>
    /\ printed = <<>>
    /\ result = "none"
    /\ panicking = FALSE
    /\ regAtStart = <<>>
    /\ synthesized = <<>>
    /\ log = <<>>
    /\ closeLog = <<>>
    /\ statusTrail = <<"Pending">>
    /\ appendCount = 0

\* No stand-alone call of putObjectVerify is under way.
NoVerifyCall ==
    /\ vRes = NoResponse
    /\ vExpected = 0
    /\ vOut = NoOutcome
    /\ vpc = "idle"

\* No stand-alone call of newPutObjectReq is under way.
NoBuildCall ==
    /\ bBucket = ""
    /\ bObject = <<>>
    /\ bPayload = <<>>
    /\ bHashErr = NoError
    /\ bOut = [req |-> EmptyRequest, err |-> NoError]
    /\ bpc = "idle"

Init ==
    /\ InitRun
    /\ NoVerifyCall
    /\ NoBuildCall

Next ==
    \/ PreparedStart
    \/ PreparedBuild
    \/ PreparedExec
    \/ PreparedVerify
    \/ UnPreparedStart
    \/ UnPreparedBuild
    \/ UnPreparedExec
    \/ UnPreparedVerify
    \/ UnPreparedDone
    \/ RunDeferred
    \/ Return
    \/ NextStep

Spec == Init /\ [][Next]_vars

(***************************************************************************)
(* putObjectVerify on its own: any response, any expected status.          *)
(***************************************************************************)
InitVerify ==
    /\ InitRun
    /\ vRes \in Responses
    /\ vExpected \in Statuses
    /\ vOut = NoOutcome
    /\ vpc = "ready"
    /\ NoBuildCall

VerifyCall ==
    /\ vpc = "ready"
    /\ vOut' = putObjectVerify(vRes, vExpected)
    /\ vpc' = "returned"
    /\ UNCHANGED <<globals, locals, ghosts, vRes, vExpected, buildCall, appendCount>>

NextVerify == VerifyCall

SpecVerify == InitVerify /\ [][NextVerify]_vars

(***************************************************************************)
(* newPutObjectReq on its own: any names, any payload, the empty one too,  *)
(* the hasher succeeding or failing.                                       *)
(***************************************************************************)
\* Bytes a payload is made of.
PayloadBytes == {97, 98}

Payloads == UNION {[1..n -> PayloadBytes] : n \in 0..MaxPayloadLen}

InitBuild ==
    /\ InitRun
    /\ NoVerifyCall
    /\ bBucket \in {"b1", "b2"}
    /\ bObject \in {PreparedKey, UnPreparedKey(0), UnPreparedKey(10)}
    /\ bPayload \in Payloads
    /\ bHashErr \in {NoError, ErrHashRead}
    /\ bOut = [req |-> EmptyRequest, err |-> NoError]
    /\ bpc = "ready"

BuildCall ==
    /\ bpc = "ready"
    /\ bOut' = newPutObjectReq(bBucket, bObject, bPayload, bHashErr)
    /\ bpc' = "returned"
    /\ UNCHANGED <<globals, locals, ghosts, verifyCall, appendCount,
                   bBucket, bObject, bPayload, bHashErr>>

NextBuild == BuildCall

SpecBuild == InitBuild /\ [][NextBuild]_vars

(***************************************************************************)
(* Properties of putObjectVerify (checked under SpecVerify).               *)
(***************************************************************************)
Returned == vpc = "returned"

HeaderAccepted(r) == verifyStandardHeaders(r.Header) = NoError

StatusMatches == vRes.StatusCode = vExpected

BodyReadable(r) == ~r.Body.isNil /\ ~r.Body.readErr

\* C6: putObjectVerify calls the header check, then the status check, then
\* the body check; it stops at the first check that fails and returns that
\* check's error, so a rejected header wins over a wrong status and the body
\* is left unread unless both earlier checks passed.
C6_FixedOrderShortCircuit ==
    Returned =>
        /\ vOut.ran # <<>>
        /\ IsPrefix(vOut.ran, <<"header", "status", "body">>)
        /\ ~HeaderAccepted(vRes) =>
              /\ vOut.ran = <<"header">>
              /\ vOut.err = verifyStandardHeaders(vRes.Header)
        /\ (HeaderAccepted(vRes) /\ ~StatusMatches) =>
              /\ vOut.ran = <<"header", "status">>
              /\ vOut.err = verifyStatusPutObject(vRes.StatusCode, vExpected)
        /\ (HeaderAccepted(vRes) /\ StatusMatches) =>
              vOut.ran = <<"header", "status", "body">>
        /\ (~HeaderAccepted(vRes) \/ ~StatusMatches) =>
              /\ vOut.res.Body = vRes.Body
              /\ vOut.res.Body.reads = 0

C6_Witness ==
    /\ Returned
    /\ ~HeaderAccepted(vRes)
    /\ ~StatusMatches
    /\ vRes.Body.data # <<>>

\* C7: one call of putObjectVerify reads the body stream of the response at
\* most once, whether it returns nil or an error.
C7_BodyReadAtMostOnce ==
    Returned =>
        /\ vOut.res.Body.reads <= 1
        /\ vOut.res.Body.reads = 1 => vOut.res.Body.pos = Len(vRes.Body.data)

C7_Witness ==
    /\ Returned
    /\ vOut.err # NoError
    /\ vOut.res.Body.reads = 1
    /\ vRes.Body.data # <<>>

\* C8: putObjectVerify does not panic on a nil body; with accepted headers
\* and the expected status a nil body verifies like an empty one.
C8_NilBodyVerifies ==
    (Returned /\ vRes.Body.isNil) =>
        /\ ~vOut.panic
        /\ (HeaderAccepted(vRes) /\ StatusMatches) => vOut.err = NoError

\* C9 as stated: whenever the status differs from the expected one, the
\* returned error names both codes.
C9_AnyResponseNamesBothCodes ==
    (Returned /\ ~StatusMatches) =>
        /\ Contains(vOut.err, Itoa(vExpected))
        /\ Contains(vOut.err, Itoa(vRes.StatusCode))

\* C9, amended: whenever the headers are accepted and the status differs
\* from the expected one, the returned error names both codes.
C9_AcceptedHeadersNamesBothCodes ==
    (Returned /\ HeaderAccepted(vRes) /\ ~StatusMatches) =>
        /\ ~vOut.panic
        /\ vOut.err # NoError
        /\ Contains(vOut.err, Itoa(vExpected))
        /\ Contains(vOut.err, Itoa(vRes.StatusCode))

C9_Witness ==
    /\ Returned
    /\ HeaderAccepted(vRes)
    /\ vRes.StatusCode = 403
    /\ vExpected = StatusOK

\* C10: on a response whose body reads to its end, putObjectVerify returns
\* nil exactly when the headers are accepted, the status is the expected
\* one and the body is empty; a non-empty body that is all that is wrong
\* gives an error that carries the received content.
C10_NilIffAllThreeHold ==
    (Returned /\ BodyReadable(vRes)) =>
        /\ ~vOut.panic
        /\ (vOut.err = NoError) <=>
              (HeaderAccepted(vRes) /\ StatusMatches /\ Len(vRes.Body.data) = 0)
        /\ (HeaderAccepted(vRes) /\ StatusMatches /\ Len(vRes.Body.data) > 0) =>
              Contains(vOut.err, BytesToString(vRes.Body.data))

C10_Witness ==
    /\ Returned
    /\ BodyReadable(vRes)
    /\ HeaderAccepted(vRes)
    /\ StatusMatches
    /\ Len(vRes.Body.data) > 0
    /\ vOut.err # NoError

(***************************************************************************)
(* Properties of the two steps (checked under Spec).                       *)
(***************************************************************************)
LastOp == IF log = <<>> THEN "none" ELSE log[Len(log)].op

Calls(op) == {j \in 1..Len(log) : log[j].op = op}

\* The response the step received last.
LastResponse == responses[res]

\* The response is one putObjectVerify returns an error for.
Rejected(r) ==
    \/ ~HeaderAccepted(r)
    \/ r.StatusCode # StatusOK
    \/ /\ ~r.Body.isNil
       /\ r.Body.readErr \/ r.Body.data # <<>>

\* The response is the one a PUT is answered with when all is well.
Accepted(r) ==
    /\ HeaderAccepted(r)
    /\ r.StatusCode = StatusOK
    /\ BodyReadable(r)
    /\ r.Body.data = <<>>

\* The step has reported a failure and nothing else.
ReportedFailure ==
    /\ Len(printed) = 1
    /\ printed[1].message = Message(curTest)
    /\ printed[1].err # NoError

\* C1: when the unprepared loop fails in iteration k = i + 1, the objects of
\* iterations 1..k-1 and no others have been appended, in order, the step
\* returns false, and nothing was built or executed for a later iteration.
C1_UnPreparedFailFast ==
    (mode = "unprepared" /\ result = "false") =>
        /\ i < LoopBound
        /\ Len(synthesized) = i + 1
        /\ \A j \in 1..Len(synthesized) : synthesized[j].Key = UnPreparedKey(j - 1)
        /\ s3verifyObjects = regAtStart \o SubSeq(synthesized, 1, i)
        /\ Cardinality(Calls("build")) = i + 1
        /\ Cardinality(Calls("exec")) \in {i, i + 1}
        /\ \A j \in 1..Len(log) : log[j].n <= i
        /\ ReportedFailure
        /\ pc \in {"return", "done"}
        /\ pc = "done" => status = "Failed"

C1_Witness ==
    /\ mode = "unprepared"
    /\ status = "Failed"
    /\ i = 2
    /\ LastOp = "verify"
    /\ LastResponse.StatusCode # StatusOK
    /\ Len(s3verifyObjects) = Len(regAtStart) + 2

\* C2: in prepared mode a failure of the build, of the transport or of the
\* verification (a 403 for instance) ends the step Failed with the error
\* reported, and the list of objects is what it was when the step started.
C2_PreparedFailureKeepsRegistry ==
    mode = "prepared" =>
        /\ (LastOp = "build" /\ pc # "exec") => result = "false"
        /\ (LastOp = "exec" /\ pc # "verify") => result = "false"
        /\ (LastOp = "verify" /\ Rejected(LastResponse)) => result = "false"
        /\ (LastOp = "verify" /\ HeaderAccepted(LastResponse)
              /\ LastResponse.StatusCode = 403) =>
                 printed[1].err = ErrStatus(StatusOK, 403)
        /\ result = "false" =>
              /\ s3verifyObjects = regAtStart
              /\ ReportedFailure
              /\ pc \in {"return", "done"}
              /\ pc = "done" => status = "Failed"

C2_Witness ==
    /\ mode = "prepared"
    /\ status = "Failed"
    /\ regAtStart # <<>>
    /\ LastOp = "verify"
    /\ HeaderAccepted(LastResponse)
    /\ LastResponse.StatusCode = 403

\* C3: in prepared mode a 200 response with accepted headers and an empty
\* body takes the step from Pending over Executing to Passed; the list of
\* objects gains the step's object, and only it, at its end.
C3_PreparedSuccessAppendsOne ==
    (mode = "prepared" /\ LastOp = "verify" /\ Accepted(LastResponse)) =>
        /\ result = "true"
        /\ synthesized = <<object>>
        /\ object.Key = PreparedKey
        /\ Len(object.Body) = ObjectSize
        /\ s3verifyObjects = Append(regAtStart, object)
        /\ printed = <<[message |-> Message(curTest), err |-> NoError]>>
        /\ pc \in {"return", "done"}
        /\ pc = "return" => statusTrail = <<"Pending", "Executing">>
        /\ pc = "done" => statusTrail = <<"Pending", "Executing", "Passed">>

C3_Witness ==
    /\ mode = "prepared"
    /\ status = "Passed"
    /\ regAtStart # <<>>
    /\ Accepted(LastResponse)

\* C4: no response is closed twice, and when a step has ended Passed or
\* Failed every response the transport gave it has been closed.
C4_ResponsesClosedOnce ==
    /\ \A r \in 1..Len(responses) : responses[r].closed <= 1
    /\ status \in {"Passed", "Failed"} =>
          \A r \in 1..Len(responses) : responses[r].closed = 1

C4_Witness ==
    /\ mode = "unprepared"
    /\ status = "Failed"
    /\ LastOp = "verify"
    /\ Len(responses) = 3
    /\ \A r \in 1..Len(responses) : responses[r].closed = 1

\* C5: a step that finds no bucket ends Failed with an error reported; it
\* does not crash, sends nothing and leaves the list of objects alone.
C5_NoBucketFails ==
    (s3verifyBuckets = <<>> /\ mode # "none") =>
        /\ status = "Failed"
        /\ ReportedFailure
        /\ log = <<>>
        /\ s3verifyObjects = regAtStart

\* C11: the three lists only ever grow at their end: what a list held stays
\* where it was, its first element never changes, and s3verifyObjects is as
\* long as the number of appends made to it.
C11_AppendOnly ==
    /\ [](Len(s3verifyObjects) = appendCount)
    /\ [][/\ IsPrefix(s3verifyObjects, s3verifyObjects')
          /\ IsPrefix(preparedObjects, preparedObjects')
          /\ IsPrefix(copyObjects, copyObjects')
          /\ Len(s3verifyObjects') <= Len(s3verifyObjects) + 1
          /\ s3verifyObjects # <<>> => s3verifyObjects'[1] = s3verifyObjects[1]]_vars

C11_Witness ==
    /\ curTest = 2
    /\ appendCount = LoopBound + 1
    /\ Len(s3verifyObjects) = LoopBound + 1
    /\ Len(regAtStart) \in {1, LoopBound}

\* What the calls of one object look like, in order.
CallOrder == <<"build", "exec", "verify">>

\* How many objects the running step has appended so far.
Gained == Len(s3verifyObjects) - Len(regAtStart)

\* C15: for each object the step builds, executes and verifies, in that
\* order and once each, and only then appends; an object is appended only
\* when its own response verified; once the step has failed (or passed, or
\* panicked) it makes no further call and appends nothing.
C15_BuildExecVerifyAppend ==
    /\ [](/\ \A j \in 1..Len(log) :
                /\ log[j].op = CallOrder[((j - 1) % 3) + 1]
                /\ log[j].n = (j - 1) \div 3
          /\ mode = "prepared" => Len(log) <= 3
          /\ Len(synthesized) = Cardinality(Calls("build"))
          /\ Len(responses) <= Cardinality(Calls("exec"))
          /\ Gained >= 0
          /\ Gained <= Cardinality(Calls("verify"))
          /\ s3verifyObjects = regAtStart \o SubSeq(synthesized, 1, Gained)
          /\ \A j \in 1..Gained : Accepted(responses[j]))
    /\ [][(result # "none" \/ panicking) =>
             /\ log' = log \/ log' = <<>>
             /\ s3verifyObjects' = s3verifyObjects]_vars

C15_Witness ==
    /\ mode = "unprepared"
    /\ status = "Failed"
    /\ Len(log) = 3 * LoopBound - 1
    /\ Gained = LoopBound - 1
    /\ regAtStart # <<>>

\* The loop bound of the source.
SourceLoopBound == 101

C17_EndsPassedOrFailed ==
    /\ status \in {"Pending", "Executing", "Passed", "Failed"}
    /\ pc = "done" =>
          /\ status \in {"Passed", "Failed"}
          /\ Len(printed) = 1
          /\ printed[1].err # NoError <=> status = "Failed"
          /\ result = "true" <=> status = "Passed"

\* C18: no step of either mode changes preparedObjects, copyObjects or the
\* list of buckets; s3verifyObjects is the one list that is written, in
\* prepared mode too.
C18_OnlyAdHocListWritten ==
    [][/\ preparedObjects' = preparedObjects
       /\ copyObjects' = copyObjects
       /\ s3verifyBuckets' = s3verifyBuckets
       /\ (pc = "verify" /\ pc' = "return" /\ result' = "true") =>
             s3verifyObjects' = Append(s3verifyObjects, object)]_vars

C18_Witness ==
    /\ mode = "prepared"
    /\ status = "Passed"
    /\ preparedObjects # <<>>
    /\ copyObjects # <<>>
    /\ Gained = 1

\* The numbers n down to 1.
Downto(n) == [j \in 1..n |-> n + 1 - j]

\* C19: while the unprepared loop runs no response is closed: every
\* response received so far is open and its close is pending; when the
\* step is over all of them have been closed, the last received first.
C19_ClosedAtReturnInReverse ==
    mode = "unprepared" =>
        /\ pc \in {"build", "exec", "verify"} =>
              /\ closeLog = <<>>
              /\ \A r \in 1..Len(responses) : responses[r].closed = 0
              /\ Len(responses) = i + (IF pc = "verify" THEN 1 ELSE 0)
              /\ deferred = Downto(Len(responses))
        /\ IsPrefix(closeLog, Downto(Len(responses)))
        /\ pc = "done" =>
              /\ closeLog = Downto(Len(responses))
              /\ \A r \in 1..Len(responses) : responses[r].closed = 1

C19_Witness ==
    /\ mode = "unprepared"
    /\ pc = "done"
    /\ Len(responses) = LoopBound
    /\ closeLog = Downto(LoopBound)
    /\ LoopBound >= 2

(***************************************************************************)
(* Properties of newPutObjectReq (checked under SpecBuild).                *)
(***************************************************************************)
Built == bpc = "returned"

\* C12: the request newPutObjectReq returns has a contentLength equal to the
\* number of bytes of the payload, whatever the payload and the names.
C12_ContentLengthIsPayloadLength ==
    (Built /\ bHashErr = NoError) =>
        /\ bOut.err = NoError
        /\ bOut.req.contentLength = Len(bPayload)

C12_Witness ==
    /\ Built
    /\ bOut.err = NoError
    /\ Len(bPayload) = MaxPayloadLen
    /\ bOut.req.contentLength = MaxPayloadLen

\* C13: the body of the returned request stands at its start and yields the
\* payload; the digests computed again from that body are the ones the
\* Content-MD5 and X-Amz-Content-Sha256 headers carry, and the ones of the
\* payload itself.
C13_BodyAndDigestsMatchPayload ==
    (Built /\ bHashErr = NoError) =>
        LET body  == bOut.req.contentBody
            again == computeHash(body, NoError)
            h     == bOut.req.customHeader
        IN  /\ ~body.isNil
            /\ body.pos = 0
            /\ ReadAll(body).err = NoError
            /\ ReadAll(body).bytes = bPayload
            /\ HeaderGet(h, "Content-MD5") = Base64Encode(again.md5Sum)
            /\ HeaderGet(h, "X-Amz-Content-Sha256") = HexEncode(again.sha256Sum)
            /\ again.md5Sum = <<SumMD5(bPayload)>>
            /\ again.sha256Sum = <<SumSHA256(bPayload)>>

C13_Witness ==
    /\ Built
    /\ bOut.err = NoError
    /\ Len(bPayload) = MaxPayloadLen
    /\ ReadAll(bOut.req.contentBody).bytes = bPayload

\* C14: when the hasher fails, newPutObjectReq returns the hasher's error
\* as it is, with an empty Request: no name, no header, no length, no body.
C14_HashErrorGivesEmptyRequest ==
    (Built /\ bHashErr # NoError) =>
        /\ bOut.err = bHashErr
        /\ bOut.req = EmptyRequest
        /\ bOut.req.bucketName = ""
        /\ bOut.req.objectName = <<>>
        /\ DOMAIN bOut.req.customHeader = {}
        /\ bOut.req.contentLength = 0
        /\ bOut.req.contentBody.isNil

C14_Witness ==
    /\ Built
    /\ bHashErr = ErrHashRead
    /\ bOut.err = ErrHashRead
    /\ bPayload # <<>>

====
